---- MODULE Spec2Model ----
(***************************************************************************)
(* Model of trabalhooficial.py: the fare strategies (QuartoStandard,       *)
(* SuiteMaster), the unit (UnidadeHospedagem), the reservation record      *)
(* (Reserva) and the ledger (SistemaDeGerenciamentoDeHospedagem).          *)
(*                                                                         *)
(* Decimals are fixed-point integers counting 1/Escala of a currency unit. *)
(* Currency inputs are whole units, the occupancy rate is given in tenths, *)
(* the service fee in hundredths, and the 0.20 surcharge as 20/100, so     *)
(* every product of the fare formulas is exact at this scale.              *)
(***************************************************************************)
EXTENDS Integers, Sequences, FiniteSets

\* ---------------------------------------------------------------- bounds

MaxQuartos == 2
MaxHistorico == 2
MaxDias == 7

\* The unit objects that exist (built by UnidadeHospedagem.__init__): unit 1
\* is room 101, unit 2 is room 101 too (a duplicate) or room 102.
UnidadeIds == {1, 2}
\* Room numbers used for units and for booking requests.
Numeros == {101, 102}
\* Stay parameters of a booking request: dias, minibar (currency units),
\* ocup (tenths).
Pedidos ==
    { [dias |-> 3, minibar |-> 20, ocup |-> 10],
      [dias |-> 6, minibar |-> 0, ocup |-> 5],
      [dias |-> 0, minibar |-> 10, ocup |-> 10],
      [dias |-> -1, minibar |-> 0, ocup |-> 10] }

\* ------------------------------------------------------------ fixed point

Escala == 10 * 100 * 100
Moeda(x) == x * Escala
\* v * (num/den), exact when den divides v.
Frac(v, num, den) == (v \div den) * num

\* ------------------------------------------------------- fare strategies

\* The strategy objects of demonstracao(): tarifa and extra in currency
\* units, taxa in hundredths.
TipoIds == {"standard_type", "master_type"}
TipoObj(id) ==
    IF id = "standard_type"
    THEN [classe |-> "Standard", tarifa |-> 150, taxa |-> 10, extra |-> 50]
    ELSE [classe |-> "Luxo", tarifa |-> 300, taxa |-> 15, extra |-> 30]

\* The cleaning fee charged from the fifth day on: dias >= 5 for dias > 5.
QuartoStandard_LimpezaDesde5(t, dias, minibar, ocup) ==
    LET valor_base == Frac(Moeda(t.tarifa) * dias, ocup, 10)
        valor_com_minibar == valor_base + Moeda(minibar)
        valor_com_taxa == Frac(valor_com_minibar, 100 + t.taxa, 100)
    IN  IF dias >= 5 THEN valor_com_taxa + Moeda(t.extra) ELSE valor_com_taxa

QuartoStandard_calcular_valor_reserva(t, dias, minibar, ocup) ==
    LET valor_base == Frac(Moeda(t.tarifa) * dias, ocup, 10)
        valor_com_minibar == valor_base + Moeda(minibar)
        valor_com_taxa == Frac(valor_com_minibar, 100 + t.taxa, 100)
    IN  IF dias > 5 THEN valor_com_taxa + Moeda(t.extra) ELSE valor_com_taxa

SuiteMaster_calcular_valor_reserva(t, dias, minibar, ocup) ==
    LET valor_base == Frac(Moeda(t.tarifa) * dias, ocup, 10)
        acrescimo_20 == Frac(valor_base, 20, 100)
        valor_com_acrescimo == valor_base + acrescimo_20
        valor_com_minibar == valor_com_acrescimo + Moeda(minibar)
        valor_com_taxa == Frac(valor_com_minibar, 100 + t.taxa, 100)
    IN  IF dias > 3 THEN valor_com_taxa - Moeda(t.extra) ELSE valor_com_taxa

\* Dynamic dispatch on the strategy's class.
calcular_valor_reserva(t, dias, minibar, ocup) ==
    IF t.classe = "Standard"
    THEN QuartoStandard_calcular_valor_reserva(t, dias, minibar, ocup)
    ELSE SuiteMaster_calcular_valor_reserva(t, dias, minibar, ocup)

\* ------------------------------------------------------------------ state

VARIABLES
    unidades,     \* unit id -> [numero, tipo]: the UnidadeHospedagem objects
    quartos,      \* sistema._quartos: sequence of unit ids
    historico,    \* sistema._historico_reservas: sequence of Reserva records
    ultimo,       \* the latest call: the arguments of a registrar_reserva,
                  \* the message printed (saida; "Nada" when the call prints
                  \* nothing), the exception caught, the unit iniciar_reserva
                  \* was called on (0: none), whether a strategy was invoked,
                  \* the value returned (<<>>: None)
    nSucesso,     \* number of "Sucesso" confirmations printed so far
    somaSucesso,  \* sum of the valor_total of the reservations so confirmed
    fare          \* one fare computation: its inputs and its result

vars == <<unidades, quartos, historico, ultimo, nSucesso, somaSucesso, fare>>

UltimoNada ==
    [saida |-> "Nada", numero |-> 0, dias |-> 0, minibar |-> 0, ocup |-> 0,
     excecao |-> "None", consultada |-> 0, calculou |-> FALSE,
     retorno |-> <<>>, count |-> 0, total |-> 0]

\* The record of a registrar_reserva call: its arguments, and nothing done yet.
Chamada(numero, dias, minibar, ocup) ==
    [UltimoNada EXCEPT !.numero = numero, !.dias = dias,
                       !.minibar = minibar, !.ocup = ocup]

FareNulo ==
    [fase |-> "nulo", classe |-> "Standard", tarifa |-> 0, taxa |-> 0,
     extra |-> 0, dias |-> 0, minibar |-> 0, ocup |-> 0, valor |-> 0]

\* ------------------------------------------------------------------- unit

UnidadeHospedagem(numero) == [numero |-> numero, tipo |-> "None"]

\* The check order swapped: days first, association second.
iniciar_reserva_DiasPrimeiro(u, dias, minibar, ocup) ==
    IF dias <= 0
    THEN [excecao |-> "DiasInvalidosError", calculou |-> FALSE, valor |-> 0]
    ELSE IF unidades[u].tipo = "None"
    THEN [excecao |-> "QuartoNaoAssociadoError", calculou |-> FALSE, valor |-> 0]
    ELSE [excecao |-> "None", calculou |-> TRUE,
          valor |-> calcular_valor_reserva(TipoObj(unidades[u].tipo), dias, minibar, ocup)]

\* The association check left out: no strategy gives the default fare 0.
iniciar_reserva_SemAssociacao(u, dias, minibar, ocup) ==
    IF dias <= 0
    THEN [excecao |-> "DiasInvalidosError", calculou |-> FALSE, valor |-> 0]
    ELSE IF unidades[u].tipo = "None"
    THEN [excecao |-> "None", calculou |-> FALSE, valor |-> 0]
    ELSE [excecao |-> "None", calculou |-> TRUE,
          valor |-> calcular_valor_reserva(TipoObj(unidades[u].tipo), dias, minibar, ocup)]

\* The days check off by one: dias < 0 instead of dias <= 0.
iniciar_reserva_DiasNegativos(u, dias, minibar, ocup) ==
    IF unidades[u].tipo = "None"
    THEN [excecao |-> "QuartoNaoAssociadoError", calculou |-> FALSE, valor |-> 0]
    ELSE IF dias < 0
    THEN [excecao |-> "DiasInvalidosError", calculou |-> FALSE, valor |-> 0]
    ELSE [excecao |-> "None", calculou |-> TRUE,
          valor |-> calcular_valor_reserva(TipoObj(unidades[u].tipo), dias, minibar, ocup)]

\* What the call raises (excecao), whether the strategy was invoked, and the
\* value returned when nothing is raised.
iniciar_reserva(u, dias, minibar, ocup) ==
    IF unidades[u].tipo = "None"
    THEN [excecao |-> "QuartoNaoAssociadoError", calculou |-> FALSE, valor |-> 0]
    ELSE IF dias <= 0
    THEN [excecao |-> "DiasInvalidosError", calculou |-> FALSE, valor |-> 0]
    ELSE [excecao |-> "None", calculou |-> TRUE,
          valor |-> calcular_valor_reserva(TipoObj(unidades[u].tipo), dias, minibar, ocup)]

\* ------------------------------------------------------------ reservation

\* Reserva.__init__; tipoCriacao records the strategy the unit had when the
\* record was built (a history field, not an attribute of the object).
Reserva(u, dias, minibar, ocup, valor) ==
    [unidade |-> u, dias |-> dias, minibar |-> minibar, ocup |-> ocup,
     valor |-> valor, tipoCriacao |-> unidades[u].tipo]

\* The record inserted at the front instead of the end.
Reserva_registrar_Inicio(h, r) == <<r>> \o h

\* The history overwritten by the new record.
Reserva_registrar_Substitui(h, r) == <<r>>

\* Reserva.registrar_reserva: the ledger's history after the append.
Reserva_registrar_reserva(h, r) == Append(h, r)

\* ----------------------------------------------------------------- ledger

Min(S) == CHOOSE x \in S : \A y \in S : x <= y
Max(S) == CHOOSE x \in S : \A y \in S : x >= y

Casam(numero) ==
    {i \in 1..Len(quartos) : unidades[quartos[i]].numero = numero}

\* The last match instead of the first.
quarto_selecionado_Ultimo(numero) ==
    IF Casam(numero) = {} THEN 0 ELSE quartos[Max(Casam(numero))]

\* The first registered unit as a default when nothing matches.
quarto_selecionado_Padrao(numero) ==
    IF Casam(numero) = {}
    THEN (IF quartos = <<>> THEN 0 ELSE quartos[1])
    ELSE quartos[Min(Casam(numero))]

\* next((q for q in self._quartos if q.numero_quarto == numero), None);
\* 0 stands for None.
quarto_selecionado(numero) ==
    IF Casam(numero) = {} THEN 0 ELSE quartos[Min(Casam(numero))]

\* The sum started one record late.
RECURSIVE total_faturado_SemPrimeira(_)
total_faturado_SemPrimeira(h) ==
    IF Len(h) <= 1 THEN 0 ELSE h[Len(h)].valor + total_faturado_SemPrimeira(SubSeq(h, 1, Len(h) - 1))

\* sum(reserva.valor_total for reserva in self._historico_reservas)
RECURSIVE total_faturado(_)
total_faturado(h) ==
    IF h = <<>> THEN 0 ELSE h[1].valor + total_faturado(Tail(h))

\* --------------------------------------------------------------- actions

Init ==
    /\ unidades \in {f \in [UnidadeIds -> {UnidadeHospedagem(n) : n \in Numeros}] :
                       f[1].numero = 101}
    /\ quartos = <<>>
    /\ historico = <<>>
    /\ ultimo = UltimoNada
    /\ nSucesso = 0
    /\ somaSucesso = 0
    /\ fare = FareNulo

adicionar_quarto(u) ==
    /\ Len(quartos) < MaxQuartos
    /\ quartos' = Append(quartos, u)
    /\ ultimo' = UltimoNada
    /\ UNCHANGED <<unidades, historico, nSucesso, somaSucesso, fare>>

associar_tipo_quarto(u, tipo) ==
    /\ unidades' = [unidades EXCEPT ![u].tipo = tipo]
    /\ ultimo' = UltimoNada
    /\ UNCHANGED <<quartos, historico, nSucesso, somaSucesso, fare>>

registrar_reserva(numero, dias, minibar, ocup) ==
    LET q == quarto_selecionado(numero)
        c == Chamada(numero, dias, minibar, ocup)
    IN
    IF q = 0
    THEN /\ ultimo' = [c EXCEPT !.saida = "QuartoNaoEncontrado"]
         /\ UNCHANGED <<unidades, quartos, historico, nSucesso, somaSucesso, fare>>
    ELSE LET res == iniciar_reserva(q, dias, minibar, ocup) IN
         IF res.excecao = "None"
         THEN LET nova_reserva == Reserva(q, dias, minibar, ocup, res.valor) IN
              /\ Len(historico) < MaxHistorico
              /\ historico' = Reserva_registrar_reserva(historico, nova_reserva)
              /\ nSucesso' = nSucesso + 1
              /\ somaSucesso' = somaSucesso + nova_reserva.valor
              /\ ultimo' = [c EXCEPT !.saida = "Sucesso",
                                     !.consultada = q,
                                     !.calculou = res.calculou]
              /\ UNCHANGED <<unidades, quartos, fare>>
         ELSE /\ ultimo' = [c EXCEPT !.saida = "Falha",
                                     !.excecao = res.excecao,
                                     !.consultada = q,
                                     !.calculou = res.calculou]
              /\ UNCHANGED <<unidades, quartos, historico, nSucesso, somaSucesso, fare>>

\* The two figures resumo_faturamento_mensal prints.
Resumo(h) == [count |-> Len(h), total |-> total_faturado(h)]

resumo_faturamento_mensal ==
    /\ ultimo' = [UltimoNada EXCEPT !.saida = "Resumo",
                                    !.count = Resumo(historico).count,
                                    !.total = Resumo(historico).total]
    /\ UNCHANGED <<unidades, quartos, historico, nSucesso, somaSucesso, fare>>

Next ==
    \/ \E u \in UnidadeIds : adicionar_quarto(u)
    \/ \E u \in UnidadeIds, tipo \in TipoIds : associar_tipo_quarto(u, tipo)
    \/ \E n \in Numeros, p \in Pedidos : registrar_reserva(n, p.dias, p.minibar, p.ocup)
    \/ resumo_faturamento_mensal

Spec == Init /\ [][Next]_vars


\* ------------------------------------------- the Reserva class used directly

\* What a caller of Reserva.__init__ may pass: stay parameters that
\* iniciar_reserva would refuse and ones it would accept, and a stored total
\* (currency units) of its own choosing.
PedidosDiretos == {p \in Pedidos : p.dias \in {0, 3}}
ValoresDiretos == {0}

\* Reserva(u, dias, minibar, ocup, valor).registrar_reserva(sistema), called
\* by any code holding the ledger: no validation, nothing printed.
Reserva_direta(u, dias, minibar, ocup, valor) ==
    /\ Len(historico) < MaxHistorico
    /\ historico' = Reserva_registrar_reserva(historico, Reserva(u, dias, minibar, ocup, Moeda(valor)))
    /\ ultimo' = UltimoNada
    /\ UNCHANGED <<unidades, quartos, nSucesso, somaSucesso, fare>>

NextPublic ==
    \/ Next
    \/ \E u \in UnidadeIds, p \in PedidosDiretos, v \in ValoresDiretos :
          Reserva_direta(u, p.dias, p.minibar, p.ocup, v)

SpecPublic == Init /\ [][NextPublic]_vars

\* ------------------------------------------------ one fare computation alone

FareEntradas ==
    [fase : {"entrada"}, classe : {"Standard", "Luxo"}, tarifa : {150, 300},
     taxa : {10, 15}, extra : {30, 50, 400}, dias : 1..MaxDias,
     minibar : {0, 20}, ocup : {5, 10}, valor : {0}]

FareInit ==
    /\ unidades = [u \in UnidadeIds |-> UnidadeHospedagem(101)]
    /\ quartos = <<>>
    /\ historico = <<>>
    /\ ultimo = UltimoNada
    /\ nSucesso = 0
    /\ somaSucesso = 0
    /\ fare \in FareEntradas

FareCalcular ==
    /\ fare.fase = "entrada"
    /\ fare' = [fare EXCEPT !.fase = "saida",
                            !.valor = calcular_valor_reserva(fare, fare.dias, fare.minibar, fare.ocup)]
    /\ UNCHANGED <<unidades, quartos, historico, ultimo, nSucesso, somaSucesso>>

FareNext == FareCalcular

SpecFare == FareInit /\ [][FareNext]_vars

\* ============================================================== claims

\* A step that is the call registrar_reserva(n, p.dias, p.minibar, p.ocup)
\* (the call records its arguments, which are compared first).
Chamou(n, p) ==
    /\ ultimo'.numero = n
    /\ ultimo'.dias = p.dias
    /\ registrar_reserva(n, p.dias, p.minibar, p.ocup)

\* Some registered unit has room number n.
Achado(n) == \E i \in 1..Len(quartos) : unidades[quartos[i]].numero = n

\* The earliest-registered unit with room number n.
PrimeiraUnidade(n) ==
    quartos[CHOOSE i \in 1..Len(quartos) :
                /\ unidades[quartos[i]].numero = n
                /\ \A j \in 1..(i - 1) : unidades[quartos[j]].numero # n]

Associada(u) == unidades[u].tipo # "None"

Valor(u, p) == calcular_valor_reserva(TipoObj(unidades[u].tipo), p.dias, p.minibar, p.ocup)

Ultima(h) == h[Len(h)]

\* historico' is historico plus one new last element.
CresceUm == /\ Len(historico') = Len(historico) + 1
            /\ SubSeq(historico', 1, Len(historico)) = historico

\* C1: the billing summary reports as count the number of bookings that
\* succeeded so far and as total the sum of their amounts (0 and 0 when none
\* succeeded), in every state and in the summary the latest call printed.
C1_ResumoContaSucessos ==
    /\ Resumo(historico).count = nSucesso
    /\ Resumo(historico).total = somaSucesso
    /\ (nSucesso = 0 => Resumo(historico) = [count |-> 0, total |-> 0])
    /\ (ultimo.saida = "Resumo" =>
            ultimo.count = nSucesso /\ ultimo.total = somaSucesso)

C1_Witness ==
    /\ ultimo.saida = "Resumo"
    /\ ultimo.count = 2
    /\ nSucesso = 2
    /\ ultimo.total = historico[1].valor + historico[2].valor
    /\ ultimo.total > 0

\* The effect of a successful booking of room n with parameters p.
C2_Efeito(n, p) ==
    LET q == PrimeiraUnidade(n)
        nova == Ultima(historico')
    IN  /\ CresceUm
        /\ nova.unidade = q
        /\ nova.dias = p.dias
        /\ nova.minibar = p.minibar
        /\ nova.ocup = p.ocup
        /\ nova.valor = Valor(q, p)
        /\ ultimo'.saida = "Sucesso"

C2_Caso(n, p) == Chamou(n, p) /\ Achado(n) /\ Associada(PrimeiraUnidade(n)) /\ p.dias > 0

\* C2 (as amended): a booking that finds an associated unit, with dias > 0,
\* appends exactly one Reserva as the new last element of the history, holding
\* that unit, the given dias, minibar and occupancy and the total computed by
\* the unit's current strategy, prints the confirmation, and returns None.
C2_ReservaAnexada ==
    [][\A n \in Numeros, p \in Pedidos :
          C2_Caso(n, p) => (C2_Efeito(n, p) /\ ultimo'.retorno = <<>>)]_vars

\* C2 (as stated): ... and returns that Reserva to the caller.
C2_RetornaReserva ==
    [][\A n \in Numeros, p \in Pedidos :
          C2_Caso(n, p) => (C2_Efeito(n, p) /\ ultimo'.retorno = <<Ultima(historico')>>)]_vars

C2_Witness ==
    /\ ultimo.saida = "Sucesso"
    /\ Len(historico) = 2
    /\ Ultima(historico).dias = ultimo.dias
    /\ Ultima(historico).unidade = ultimo.consultada
    /\ Ultima(historico) # historico[1]
    /\ ultimo.retorno = <<>>

\* C3: a booking whose looked-up unit has no strategy fails with
\* QuartoNaoAssociadoError, caught and reported, and leaves the history and
\* the units as they were, whatever dias, minibar and occupancy are.
C3_NaoAssociadaFalha ==
    [][\A n \in Numeros, p \in Pedidos :
          (Chamou(n, p) /\ Achado(n) /\ ~Associada(PrimeiraUnidade(n))) =>
              /\ ultimo'.saida = "Falha"
              /\ ultimo'.excecao = "QuartoNaoAssociadoError"
              /\ historico' = historico
              /\ quartos' = quartos
              /\ unidades' = unidades]_vars

C3_Witness ==
    /\ ultimo.saida = "Falha"
    /\ ultimo.excecao = "QuartoNaoAssociadoError"
    /\ ultimo.dias > 0
    /\ ~Associada(ultimo.consultada)
    /\ historico # <<>>

\* C4: a booking with dias <= 0 on an associated unit fails with
\* DiasInvalidosError before any fare is computed, caught and reported, and
\* leaves the history as it was.
C4_DiasInvalidosFalha ==
    [][\A n \in Numeros, p \in Pedidos :
          (Chamou(n, p) /\ Achado(n) /\ Associada(PrimeiraUnidade(n)) /\ p.dias <= 0) =>
              /\ ultimo'.saida = "Falha"
              /\ ultimo'.excecao = "DiasInvalidosError"
              /\ ~ultimo'.calculou
              /\ historico' = historico]_vars

C4_Witness ==
    /\ ultimo.saida = "Falha"
    /\ ultimo.excecao = "DiasInvalidosError"
    /\ ultimo.dias < 0
    /\ Associada(ultimo.consultada)
    /\ historico # <<>>

\* C5: a booking of a room number no registered unit has ends in the "room
\* not found" outcome, which is neither a validation failure nor the success
\* outcome; nothing is raised, iniciar_reserva is called on no unit, and the
\* history and the units are left as they were.
C5_QuartoNaoEncontrado ==
    [][\A n \in Numeros, p \in Pedidos :
          (Chamou(n, p) /\ ~Achado(n)) =>
              /\ ultimo'.saida = "QuartoNaoEncontrado"
              /\ ultimo'.saida \notin {"Falha", "Sucesso"}
              /\ ultimo'.excecao = "None"
              /\ ultimo'.consultada = 0
              /\ ~ultimo'.calculou
              /\ historico' = historico
              /\ quartos' = quartos
              /\ unidades' = unidades]_vars

C5_Witness ==
    /\ ultimo.saida = "QuartoNaoEncontrado"
    /\ ~Achado(ultimo.numero)
    /\ quartos # <<>>
    /\ historico # <<>>

\* C6: the history is append-only: over every step (adicionar_quarto,
\* associar_tipo_quarto, registrar_reserva, resumo_faturamento_mensal) the
\* history before is a prefix of the history after, every earlier record
\* unchanged, also when a unit is associated anew after a booking.
C6_HistoricoSoCresce ==
    [][/\ Len(historico) <= Len(historico')
       /\ SubSeq(historico', 1, Len(historico)) = historico]_vars

\* A unit was booked, then associated with another strategy, then something
\* else was booked: the first record keeps the total of the old strategy.
C6_Witness ==
    /\ Len(historico) = 2
    /\ unidades[historico[1].unidade].tipo # historico[1].tipoCriacao
    /\ historico[1].valor =
          calcular_valor_reserva(TipoObj(historico[1].tipoCriacao),
                                 historico[1].dias, historico[1].minibar, historico[1].ocup)
    /\ historico[1].valor # Valor(historico[1].unidade, historico[1])

\* C7: every Reserva in the history was created through a successful booking
\* validation (its unit had a strategy, its dias are positive) and its total
\* is the fare of the strategy its unit had at creation, on its own
\* parameters.
C7_HistoricoValidado ==
    \A i \in 1..Len(historico) :
        LET r == historico[i] IN
        /\ r.tipoCriacao # "None"
        /\ r.dias > 0
        /\ r.valor = calcular_valor_reserva(TipoObj(r.tipoCriacao), r.dias, r.minibar, r.ocup)

\* C8: adicionar_quarto appends whatever unit it is given, and a booking acts
\* on the earliest-registered unit with the room number: that unit is the one
\* validated, the one whose strategy computes the total and the one stored in
\* the Reserva; later units with the same number are not consulted.
C8_PrimeiroQuartoVence ==
    [][/\ \A u \in UnidadeIds : adicionar_quarto(u) => quartos' = quartos \o <<u>>
       /\ \A n \in Numeros, p \in Pedidos :
            (Chamou(n, p) /\ Achado(n)) =>
                LET q == PrimeiraUnidade(n) IN
                /\ ultimo'.consultada = q
                /\ (~Associada(q) =>
                        ultimo'.excecao = "QuartoNaoAssociadoError" /\ historico' = historico)
                /\ (Associada(q) /\ p.dias <= 0 =>
                        ultimo'.excecao = "DiasInvalidosError" /\ historico' = historico)
                /\ (Associada(q) /\ p.dias > 0 =>
                        /\ CresceUm
                        /\ Ultima(historico').unidade = q
                        /\ Ultima(historico').valor = Valor(q, p))]_vars

\* Two different units with the same number, the first without a strategy and
\* the second with one; the booking failed on the first.
C8_Witness ==
    /\ Len(quartos) = 2
    /\ quartos[1] # quartos[2]
    /\ unidades[quartos[1]].numero = unidades[quartos[2]].numero
    /\ ~Associada(quartos[1])
    /\ Associada(quartos[2])
    /\ ultimo.numero = unidades[quartos[1]].numero
    /\ ultimo.dias > 0
    /\ ultimo.excecao = "QuartoNaoAssociadoError"
    /\ ultimo.consultada = quartos[1]
    /\ historico = <<>>

\* The reference formulas, at scale Escala, in integer arithmetic throughout.
RefStandard(f) ==
    (f.tarifa * f.dias * f.ocup + f.minibar * 10) * (100 + f.taxa) * 100
        + (IF f.dias > 5 THEN f.extra * Escala ELSE 0)

RefSuite(f) ==
    (120 * f.tarifa * f.dias * f.ocup + f.minibar * 1000) * (100 + f.taxa)
        - (IF f.dias > 3 THEN f.extra * Escala ELSE 0)

Exemplo(f, classe, tarifa, taxa, extra, dias, minibar, ocup) ==
    /\ f.classe = classe /\ f.tarifa = tarifa /\ f.taxa = taxa /\ f.extra = extra
    /\ f.dias = dias /\ f.minibar = minibar /\ f.ocup = ocup

\* C9: for every input with dias > 0 the computed total is the reference
\* formula of the variant: cleaning fee added exactly when dias > 5, loyalty
\* discount subtracted exactly when dias > 3, no clamping at zero; and the
\* three worked examples give 517, 1205 and 1626.
C9_FormulaDeReferencia ==
    fare.fase = "saida" =>
        /\ fare.classe = "Standard" => fare.valor = RefStandard(fare)
        /\ fare.classe = "Luxo" => fare.valor = RefSuite(fare)
        /\ Exemplo(fare, "Standard", 150, 10, 50, 3, 20, 10) => fare.valor = 517 * Escala
        /\ Exemplo(fare, "Standard", 150, 10, 50, 7, 0, 10) => fare.valor = 1205 * Escala
        /\ Exemplo(fare, "Luxo", 300, 15, 30, 4, 0, 10) => fare.valor = 1626 * Escala

C9_Witness ==
    /\ fare.fase = "saida"
    /\ Exemplo(fare, "Standard", 150, 10, 50, 7, 0, 10)
    /\ fare.valor = 1205 * Escala

\* C10: the association check comes first: a booking with dias <= 0 on a unit
\* without a strategy reports QuartoNaoAssociadoError, and DiasInvalidosError
\* is reported only for a unit that has a strategy.
C10_AssociacaoPrimeiro ==
    [][\A n \in Numeros, p \in Pedidos :
          Chamou(n, p) =>
              /\ (Achado(n) /\ ~Associada(PrimeiraUnidade(n)) /\ p.dias <= 0) =>
                     ultimo'.excecao = "QuartoNaoAssociadoError"
              /\ ultimo'.excecao = "DiasInvalidosError" =>
                     (Achado(n) /\ Associada(PrimeiraUnidade(n)))]_vars

C10_Witness ==
    /\ ultimo.saida = "Falha"
    /\ ultimo.excecao = "QuartoNaoAssociadoError"
    /\ ultimo.dias <= 0
    /\ ~Associada(ultimo.consultada)

====
